---- MODULE Spec2Model ----
(***************************************************************************)
(* Model of mcp_server.py: the tools/call dispatcher (tools_call and its   *)
(* event_stream generator), the five database operations behind it and the *)
(* SQLite store (tables customers and tickets) they share.                 *)
(*                                                                         *)
(* Granularity.  Every operation opens its own connection (get_connection) *)
(* and talks to the database file statement by statement; the database     *)
(* serialises statements and transactions, not whole operations, and the   *)
(* file may be served by several server processes.  A step of the model is *)
(* therefore one committed unit of database work together with the local   *)
(* computation around it: "UPDATE ...; commit" is one step, the SELECT     *)
(* that reads the row back is the next one.  The events an invocation      *)
(* yields are local to its own response stream.                            *)
(***************************************************************************)
EXTENDS Integers, Sequences, FiniteSets, TLC

VARIABLES customers, tickets, clock, inv, registry, listing, literal, stored

\* The registry (the dict TOOLS), the last answer of tools/list, and the
\* construction of the registry: the items of the dict display that defines
\* TOOLS and how many of them have been stored.
registryVars == <<registry, listing, literal, stored>>

vars == <<customers, tickets, clock, inv, registryVars>>

(***************************************************************************)
(* Bounds of the model.                                                    *)
(***************************************************************************)
MaxInv == 2      \* invocations (requests) in one behaviour
MaxClock == 1    \* highest value of CURRENT_TIMESTAMP
MaxItems == 3    \* items of a dict display whose evaluation is explored

Inv == 1..MaxInv

(***************************************************************************)
(* Python values.  A dict is a function on its keys; {} is the function    *)
(* with no keys.  None is a value different from every dict.               *)
(***************************************************************************)
EmptyDict == [k \in {} |-> ""]
None == [none |-> TRUE]

Min(a, b) == IF a < b THEN a ELSE b

\* JSON values a request body may carry under "name".
JStr(s) == [json |-> "string", v |-> s]
JArray(s) == [json |-> "array", v |-> s]

\* Python truthiness ("if not name"): None, "" and [] are false.
Truthy(j) == j # None /\ j.v # ""
\* dict.get raises TypeError on an unhashable key (a list).
Hashable(j) == j = None \/ j.json # "array"

(***************************************************************************)
(* The store.  Customers are created outside this program; the ids 1 and 2 *)
(* exist, id 3 never does.                                                 *)
(***************************************************************************)
ExistingIds == {1, 2}
IdArgs == {1, 3}

CustomerRow(id, status) ==
    [id |-> id, name |-> "n0", email |-> "e0", phone |-> "p0",
     status |-> status, created_at |-> 0, updated_at |-> 0]

\* Column constraints of the customers table beyond its column list.
CustomerRowAccepted(row) == TRUE

(***************************************************************************)
(* The registry.                                                           *)
(***************************************************************************)
TOOLS == <<"get_customer", "list_customers", "update_customer",
           "create_ticket", "get_customer_history">>

ToolNames == {TOOLS[n] : n \in 1..Len(TOOLS)}

\* The parameters of each operation and those without a default.
Params(tool) ==
    CASE tool = "get_customer" -> {"customer_id"}
      [] tool = "list_customers" -> {"status", "limit"}
      [] tool = "update_customer" -> {"customer_id", "data"}
      [] tool = "create_ticket" -> {"customer_id", "issue", "priority"}
      [] tool = "get_customer_history" -> {"customer_id"}

Required(tool) ==
    CASE tool = "get_customer" -> {"customer_id"}
      [] tool = "list_customers" -> {}
      [] tool = "update_customer" -> {"customer_id", "data"}
      [] tool = "create_ticket" -> {"customer_id", "issue"}
      [] tool = "get_customer_history" -> {"customer_id"}

\* tool_def.func(**arguments) binds iff no required parameter is missing and
\* no keyword is unexpected; otherwise Python raises TypeError.
BindOk(tool, arguments) ==
    /\ Required(tool) \subseteq DOMAIN arguments
    /\ DOMAIN arguments \subseteq Params(tool)

Arg(arguments, key, default) ==
    IF key \in DOMAIN arguments THEN arguments[key] ELSE default

DefaultLimit == 20

(***************************************************************************)
(* Database statements.                                                    *)
(***************************************************************************)
\* SELECT * FROM customers WHERE id = ?  followed by cur.fetchone()
SelectCustomer(customer_id) ==
    IF customer_id \in DOMAIN customers THEN customers[customer_id] ELSE None

\* Variant: the row is returned as fetched, None for no row.
RowOrEmpty_Raw(row) == row

\* dict(row) if row else {}
RowOrEmpty(row) == IF row # None THEN row ELSE EmptyDict

\* Variant: the query without its LIMIT.
SqlLimit_None(rows, limit) == rows

\* LIMIT ?: a negative LIMIT is no limit at all in SQLite.
SqlLimit(rows, limit) ==
    IF limit < 0 THEN rows ELSE SubSeq(rows, 1, Min(limit, Len(rows)))

\* SELECT * FROM customers WHERE status = ? ORDER BY created_at DESC: every
\* order of the matching rows that is descending in created_at (rows with
\* equal created_at come in an order the database chooses).
SelectCustomersByStatus(status) ==
    LET ids == {id \in DOMAIN customers : customers[id].status = status}
        n == Cardinality(ids)
        orders == {s \in [1..n -> ids] :
                     /\ \A a, b \in 1..n : a # b => s[a] # s[b]
                     /\ \A a, b \in 1..n : a < b =>
                          customers[s[a]].created_at >= customers[s[b]].created_at}
    IN {[k \in 1..n |-> customers[s[k]]] : s \in orders}

\* The results list_customers may return.
list_customers(status, limit) ==
    {SqlLimit(rows, limit) : rows \in SelectCustomersByStatus(status)}

allowed_fields == {"name", "email", "phone", "status"}

\* Variant: the keys of data without the allow-list filter.
fields_Unfiltered(data) == DOMAIN data

\* fields = [k for k in data.keys() if k in allowed_fields]
fields(data) == {k \in DOMAIN data : k \in allowed_fields}

\* Variant: the SET clause without updated_at = CURRENT_TIMESTAMP.
UpdatedRow_StaleTimestamp(row, data, now) ==
    [k \in DOMAIN row |-> IF k \in fields(data) THEN data[k] ELSE row[k]]

\* UPDATE customers SET f1 = ?, ..., updated_at = CURRENT_TIMESTAMP on one row
UpdatedRow(row, data, now) ==
    [k \in DOMAIN row |->
        IF k \in fields(data) THEN data[k]
        ELSE IF k = "updated_at" THEN now
        ELSE row[k]]

\* Variant: the UPDATE without its WHERE clause.
UpdateCustomers_NoWhere(customer_id, data, now) ==
    [id \in DOMAIN customers |-> UpdatedRow(customers[id], data, now)]

\* ... WHERE id = ?: the table after the UPDATE (no row matches an absent id)
UpdateCustomers(customer_id, data, now) ==
    [id \in DOMAIN customers |->
        IF id = customer_id THEN UpdatedRow(customers[id], data, now)
        ELSE customers[id]]

\* Variant: no check of the priority.
ValidPriority_Any(priority) == TRUE

\* priority not in {"low", "medium", "high"} raises ValueError
ValidPriority(priority) == priority \in {"low", "medium", "high"}

DefaultPriority == "medium"

TicketIds == {tickets[n].id : n \in 1..Len(tickets)}

\* Variant: the largest id in the table is handed out again.
NextTicketId_Reused ==
    IF TicketIds = {} THEN 1
    ELSE CHOOSE m \in TicketIds : \A x \in TicketIds : x <= m

\* The id SQLite generates for an INSERT that names no id: one more than the
\* largest id in the table.
NextTicketId ==
    IF TicketIds = {} THEN 1
    ELSE (CHOOSE m \in TicketIds : \A x \in TicketIds : x <= m) + 1

\* Variant: the status is taken from the table's default, not fixed to 'open'.
InsertedTicket_NoStatus(id, customer_id, issue, priority, now) ==
    [id |-> id, customer_id |-> customer_id, issue |-> issue,
     status |-> "", priority |-> priority, created_at |-> now]

\* INSERT INTO tickets (customer_id, issue, status, priority, created_at)
\* VALUES (?, ?, 'open', ?, CURRENT_TIMESTAMP)
InsertedTicket(id, customer_id, issue, priority, now) ==
    [id |-> id, customer_id |-> customer_id, issue |-> issue,
     status |-> "open", priority |-> priority, created_at |-> now]

\* SELECT * FROM tickets WHERE id = ?  followed by cur.fetchone()
SelectTicket(ticket_id) ==
    LET hits == {n \in 1..Len(tickets) : tickets[n].id = ticket_id}
    IN IF hits = {} THEN None ELSE tickets[CHOOSE n \in hits : TRUE]

RECURSIVE TicketsWhere(_, _)
\* rows of s that belong to customer c, in the order of s
TicketsWhere(s, c) ==
    IF s = <<>> THEN <<>>
    ELSE IF Head(s).customer_id = c THEN <<Head(s)>> \o TicketsWhere(Tail(s), c)
    ELSE TicketsWhere(Tail(s), c)

\* SELECT * FROM tickets WHERE customer_id = ? ORDER BY created_at DESC:
\* every order of the customer's tickets that is descending in created_at.
SelectTicketsOf(customer_id) ==
    LET mine == TicketsWhere(tickets, customer_id)
        n == Len(mine)
        orders == {s \in [1..n -> 1..n] :
                     /\ \A a, b \in 1..n : a # b => s[a] # s[b]
                     /\ \A a, b \in 1..n : a < b =>
                          mine[s[a]].created_at >= mine[s[b]].created_at}
    IN {[k \in 1..n |-> mine[s[k]]] : s \in orders}

(***************************************************************************)
(* Events of the response stream.                                          *)
(***************************************************************************)
StartMsg(name) == [event |-> "start", tool |-> name]
ResultMsg(name, result) == [event |-> "result", tool |-> name, output |-> result]
ErrorMsg(name, e) == [event |-> "error", tool |-> name, error |-> e]
EndMsg(name) == [event |-> "end", tool |-> name]

(***************************************************************************)
(* The construction of the registry and tools/list.                        *)
(***************************************************************************)
Description(name) ==
    CASE name = "get_customer" -> "Get a single customer by id."
      [] name = "list_customers" ->
           "List customers by status with an optional limit."
      [] name = "update_customer" -> "Update fields of a customer record."
      [] name = "create_ticket" -> "Create a new support ticket for a customer."
      [] name = "get_customer_history" ->
           "Get a customer and all of their tickets."

\* The input schemas name the parameters of the operations as properties
\* and those without a default as required.
InputSchema(name) ==
    [type |-> "object", properties |-> Params(name), required |-> Required(name)]

OutputSchema(name) ==
    IF name = "list_customers" THEN [type |-> "array"] ELSE [type |-> "object"]

\* ToolDef(name=..., description=..., func=..., input_schema=..., output_schema=...)
ToolDef(name, description) ==
    [name |-> name, description |-> description, func |-> name,
     input_schema |-> InputSchema(name), output_schema |-> OutputSchema(name)]

\* The items "key": ToolDef(...) of the dict display of TOOLS, in order.
ToolItems ==
    [n \in 1..Len(TOOLS) |->
        [key |-> TOOLS[n], tool |-> ToolDef(TOOLS[n], Description(TOOLS[n]))]]

\* d[key] = tool on a dict: a key that is present keeps its place and gets
\* the new value, a new key goes to the end.
DictSet(d, item) ==
    IF \E n \in 1..Len(d) : d[n].key = item.key
    THEN [n \in 1..Len(d) |-> IF d[n].key = item.key THEN item ELSE d[n]]
    ELSE Append(d, item)

RECURSIVE DictDisplay(_)
\* The dict a display of these items evaluates to.
DictDisplay(items) ==
    IF items = <<>> THEN <<>>
    ELSE DictSet(DictDisplay(SubSeq(items, 1, Len(items) - 1)), items[Len(items)])

\* Variant of ToolsPayload: the entries without their output schema.
ToolsPayload_NoOutputSchema(tools) ==
    [n \in 1..Len(tools) |->
        [name |-> tools[n].tool.name,
         description |-> tools[n].tool.description,
         input_schema |-> tools[n].tool.input_schema]]

\* tools_list: one entry for each value of TOOLS, in the order of the dict.
ToolsPayload(tools) ==
    [n \in 1..Len(tools) |->
        [name |-> tools[n].tool.name,
         description |-> tools[n].tool.description,
         input_schema |-> tools[n].tool.input_schema,
         output_schema |-> tools[n].tool.output_schema]]

\* The registry once the module is loaded.
InitRegistry ==
    /\ literal = ToolItems
    /\ stored = Len(ToolItems)
    /\ registry = DictDisplay(ToolItems)
    /\ listing = None

(***************************************************************************)
(* Requests.  A body is the JSON object of a POST /tools/call; the keys    *)
(* "name" and "arguments" may be missing.                                  *)
(***************************************************************************)
Datas ==
    {EmptyDict, [id |-> "9"], [name |-> "n1"], [name |-> "n2"],
     [status |-> "disabled"], [status |-> "banana"],
     [email |-> "e1", id |-> "9"]}

ArgumentsFor(tool) ==
    CASE tool = "get_customer" ->
           {[customer_id |-> c] : c \in IdArgs} \cup {EmptyDict}
      [] tool = "list_customers" ->
           {EmptyDict} \cup
           {[status |-> s, limit |-> l] :
               s \in {"active", "disabled", "banana"}, l \in {-1, 0, 1}}
      [] tool = "update_customer" ->
           {[customer_id |-> c, data |-> d] : c \in IdArgs, d \in Datas}
           \cup {[customer_id |-> 1]}
      [] tool = "create_ticket" ->
           {[customer_id |-> c, issue |-> "login failure"] : c \in IdArgs}
           \cup {[customer_id |-> c, issue |-> "login failure", priority |-> p] :
                    c \in IdArgs, p \in {"high", "urgent"}}
           \cup {[customer_id |-> 1]}
      [] tool = "get_customer_history" ->
           {[customer_id |-> c] : c \in IdArgs}
           \cup {[customer_id |-> 1, limit |-> 1]}

Bodies ==
    {[arguments |-> EmptyDict]}
    \cup {[name |-> n, arguments |-> EmptyDict] :
             n \in {JStr(""), JStr("delete_customer"), JArray("get_customer")}}
    \cup {[name |-> JStr("list_customers")]}
    \cup UNION {{[name |-> JStr(t), arguments |-> a] : a \in ArgumentsFor(t)} :
                  t \in ToolNames}

\* body.get(key, default)
BodyGet(body, key, default) ==
    IF key \in DOMAIN body THEN body[key] ELSE default

(***************************************************************************)
(* An invocation: pc is its position in tools_call and event_stream,       *)
(* http the status of a rejected request (200 once the stream is set up),  *)
(* events the lines its stream has yielded so far, faulted whether a       *)
(* database call of it raised, ticket_id and cust the locals of            *)
(* create_ticket and get_customer_history across their two statements.     *)
(***************************************************************************)
IdleInv ==
    [pc |-> "idle", http |-> 0, body |-> EmptyDict, name |-> "",
     arguments |-> EmptyDict, events |-> <<>>, faulted |-> FALSE,
     ticket_id |-> 0, cust |-> None]

Init ==
    /\ \E st \in {"active", "disabled"} :
          customers = [id \in ExistingIds |->
                          CustomerRow(id, IF id = 2 THEN st ELSE "active")]
    /\ tickets = <<>>
    /\ clock = 0
    /\ inv = [i \in Inv |-> IdleInv]
    /\ InitRegistry

\* Variant: tools_call without the lookup check (no 404).
HttpStatus_NoRegistryCheck(body) ==
    LET name == BodyGet(body, "name", None)
    IN IF ~Truthy(name) THEN 400
       ELSE IF ~Hashable(name) THEN 500
       ELSE 200

\* The status tools_call answers a body with: 400 for a missing (falsy) name,
\* 500 when the registry lookup raises, 404 for a name that is no key, 200
\* with a streamed body otherwise.
HttpStatus(body) ==
    LET name == BodyGet(body, "name", None)
    IN IF ~Truthy(name) THEN 400
       ELSE IF ~Hashable(name) THEN 500
       ELSE IF name.v \notin ToolNames THEN 404
       ELSE 200

\* tools_call: a request arrives.
Call(i, body) ==
    /\ inv[i].pc = "idle"
    /\ \A j \in Inv : j < i => inv[j].pc # "idle"
    /\ LET http == HttpStatus(body)
           arguments == BodyGet(body, "arguments", EmptyDict)
       IN inv' = [inv EXCEPT ![i] =
                    IF http = 200
                    THEN [@ EXCEPT !.pc = "accepted", !.http = http, !.body = body,
                                   !.name = body.name.v, !.arguments = arguments]
                    ELSE [@ EXCEPT !.pc = "rejected", !.http = http, !.body = body]]
    /\ UNCHANGED <<customers, tickets, clock>>
    /\ UNCHANGED registryVars

\* event_stream: the start event.
Start(i) ==
    /\ inv[i].pc = "accepted"
    /\ inv' = [inv EXCEPT ![i].pc = "started",
                          ![i].events = Append(@, StartMsg(inv[i].name))]
    /\ UNCHANGED <<customers, tickets, clock>>
    /\ UNCHANGED registryVars

\* The operation returned result: the result event is yielded.
Succeed(i, result) ==
    inv' = [inv EXCEPT ![i].pc = "content",
                       ![i].events = Append(@, ResultMsg(inv[i].name, result))]

\* Variant: no except branch, the error event is never yielded.
Fail_Silent(i, e, fault) ==
    inv' = [inv EXCEPT ![i].pc = "content", ![i].faulted = fault]

\* The operation raised e: the except branch yields the error event.
Fail(i, e, fault) ==
    inv' = [inv EXCEPT ![i].pc = "content",
                       ![i].faulted = fault,
                       ![i].events = Append(@, ErrorMsg(inv[i].name, e))]

\* A started invocation of tool, about to call tool_def.func(**arguments).
AtCall(i, tool) == inv[i].pc = "started" /\ inv[i].name = tool

TypeErrorMsg == "TypeError: bad arguments"
DatabaseErrorMsg == "sqlite3.OperationalError"
IntegrityErrorMsg == "sqlite3.IntegrityError"
NoValidFieldsMsg == "No valid fields to update."
BadPriorityMsg == "priority must be one of: low, medium, high"

\* Variant: get_customer stamps the row it reads (updated_at) and commits.
GetCustomer_Touch(i) ==
    LET a == inv[i].arguments IN
    /\ AtCall(i, "get_customer")
    /\ IF BindOk("get_customer", a)
       THEN /\ customers' = UpdateCustomers(a.customer_id, EmptyDict, clock)
            /\ Succeed(i, RowOrEmpty(SelectCustomer(a.customer_id)))
       ELSE /\ Fail(i, TypeErrorMsg, FALSE)
            /\ UNCHANGED customers
    /\ UNCHANGED <<tickets, clock>>
    /\ UNCHANGED registryVars

\* get_customer: one SELECT.
GetCustomer(i) ==
    LET a == inv[i].arguments IN
    /\ AtCall(i, "get_customer")
    /\ \/ ~BindOk("get_customer", a) /\ Fail(i, TypeErrorMsg, FALSE)
       \/ BindOk("get_customer", a) /\ Fail(i, DatabaseErrorMsg, TRUE)
       \/ BindOk("get_customer", a)
          /\ Succeed(i, RowOrEmpty(SelectCustomer(a.customer_id)))
    /\ UNCHANGED <<customers, tickets, clock>>
    /\ UNCHANGED registryVars

\* list_customers: one SELECT.
ListCustomers(i) ==
    LET a == inv[i].arguments IN
    /\ AtCall(i, "list_customers")
    /\ \/ ~BindOk("list_customers", a) /\ Fail(i, TypeErrorMsg, FALSE)
       \/ BindOk("list_customers", a) /\ Fail(i, DatabaseErrorMsg, TRUE)
       \/ BindOk("list_customers", a)
          /\ \E result \in list_customers(Arg(a, "status", "active"),
                                          Arg(a, "limit", DefaultLimit)) :
                Succeed(i, result)
    /\ UNCHANGED <<customers, tickets, clock>>
    /\ UNCHANGED registryVars

\* update_customer up to conn.commit(): the check of the fields, the UPDATE
\* and its commit.
UpdateCustomerCommit(i) ==
    LET a == inv[i].arguments IN
    /\ AtCall(i, "update_customer")
    /\ \/ /\ ~BindOk("update_customer", a)
          /\ Fail(i, TypeErrorMsg, FALSE)
          /\ UNCHANGED customers
       \/ /\ BindOk("update_customer", a)
          /\ fields(a.data) = {}
          /\ Fail(i, NoValidFieldsMsg, FALSE)
          /\ UNCHANGED customers
       \/ /\ BindOk("update_customer", a)
          /\ fields(a.data) # {}
          /\ Fail(i, DatabaseErrorMsg, TRUE)
          /\ UNCHANGED customers
       \/ /\ BindOk("update_customer", a)
          /\ fields(a.data) # {}
          /\ LET table == UpdateCustomers(a.customer_id, a.data, clock)
             IN IF \A id \in DOMAIN table : CustomerRowAccepted(table[id])
                THEN /\ customers' = table
                     /\ inv' = [inv EXCEPT ![i].pc = "committed"]
                ELSE /\ Fail(i, IntegrityErrorMsg, FALSE)
                     /\ UNCHANGED customers
    /\ UNCHANGED <<tickets, clock>>
    /\ UNCHANGED registryVars

\* update_customer after conn.commit(): the SELECT that reads the row back.
UpdateCustomerReadBack(i) ==
    /\ inv[i].pc = "committed"
    /\ inv[i].name = "update_customer"
    /\ \/ Fail(i, DatabaseErrorMsg, TRUE)
       \/ Succeed(i, RowOrEmpty(SelectCustomer(inv[i].arguments.customer_id)))
    /\ UNCHANGED <<customers, tickets, clock>>
    /\ UNCHANGED registryVars

\* Variant: create_ticket without conn.commit(): the connection reads its
\* own uncommitted row back and returns it, and the close rolls it back.
CreateTicketCommit_Uncommitted(i) ==
    LET a == inv[i].arguments
        priority == Arg(a, "priority", DefaultPriority)
        ok == BindOk("create_ticket", a) /\ ValidPriority(priority)
    IN
    /\ AtCall(i, "create_ticket")
    /\ IF ok
       THEN Succeed(i, InsertedTicket(NextTicketId, a.customer_id, a.issue,
                                      priority, clock))
       ELSE Fail(i, IF BindOk("create_ticket", a) THEN BadPriorityMsg
                    ELSE TypeErrorMsg, FALSE)
    /\ UNCHANGED <<customers, tickets, clock>>
    /\ UNCHANGED registryVars

\* Variant: INSERT OR REPLACE with the id fixed to 1, so that a second
\* ticket takes the place of the first.
CreateTicketCommit_Replace(i) ==
    LET a == inv[i].arguments
        priority == Arg(a, "priority", DefaultPriority)
        ok == BindOk("create_ticket", a) /\ ValidPriority(priority)
    IN
    /\ AtCall(i, "create_ticket")
    /\ \/ /\ ~ok
          /\ Fail(i, IF BindOk("create_ticket", a) THEN BadPriorityMsg
                     ELSE TypeErrorMsg, FALSE)
          /\ UNCHANGED tickets
       \/ /\ ok
          /\ tickets' = <<InsertedTicket(1, a.customer_id, a.issue, priority, clock)>>
          /\ inv' = [inv EXCEPT ![i].pc = "committed", ![i].ticket_id = 1]
    /\ UNCHANGED <<customers, clock>>
    /\ UNCHANGED registryVars

\* create_ticket up to cur.lastrowid: the check of the priority, the INSERT
\* and its commit.
CreateTicketCommit(i) ==
    LET a == inv[i].arguments
        priority == Arg(a, "priority", DefaultPriority)
    IN
    /\ AtCall(i, "create_ticket")
    /\ \/ /\ ~BindOk("create_ticket", a)
          /\ Fail(i, TypeErrorMsg, FALSE)
          /\ UNCHANGED tickets
       \/ /\ BindOk("create_ticket", a)
          /\ ~ValidPriority(priority)
          /\ Fail(i, BadPriorityMsg, FALSE)
          /\ UNCHANGED tickets
       \/ /\ BindOk("create_ticket", a)
          /\ ValidPriority(priority)
          /\ Fail(i, DatabaseErrorMsg, TRUE)
          /\ UNCHANGED tickets
       \/ /\ BindOk("create_ticket", a)
          /\ ValidPriority(priority)
          /\ tickets' = Append(tickets,
                           InsertedTicket(NextTicketId, a.customer_id, a.issue,
                                          priority, clock))
          /\ inv' = [inv EXCEPT ![i].pc = "committed",
                                ![i].ticket_id = NextTicketId]
    /\ UNCHANGED <<customers, clock>>
    /\ UNCHANGED registryVars

\* create_ticket after cur.lastrowid: the SELECT of the new row; dict(None)
\* raises TypeError.
CreateTicketReadBack(i) ==
    /\ inv[i].pc = "committed"
    /\ inv[i].name = "create_ticket"
    /\ \/ Fail(i, DatabaseErrorMsg, TRUE)
       \/ LET row == SelectTicket(inv[i].ticket_id)
          IN IF row = None THEN Fail(i, TypeErrorMsg, FALSE)
             ELSE Succeed(i, row)
    /\ UNCHANGED <<customers, tickets, clock>>
    /\ UNCHANGED registryVars

\* get_customer_history: the SELECT of the customer.
GetCustomerHistoryCustomer(i) ==
    LET a == inv[i].arguments IN
    /\ AtCall(i, "get_customer_history")
    /\ \/ ~BindOk("get_customer_history", a) /\ Fail(i, TypeErrorMsg, FALSE)
       \/ BindOk("get_customer_history", a) /\ Fail(i, DatabaseErrorMsg, TRUE)
       \/ /\ BindOk("get_customer_history", a)
          /\ LET cust == SelectCustomer(a.customer_id)
             IN IF cust = None
                THEN Succeed(i, [customer |-> None, tickets |-> <<>>])
                ELSE inv' = [inv EXCEPT ![i].pc = "cust_read", ![i].cust = cust]
    /\ UNCHANGED <<customers, tickets, clock>>
    /\ UNCHANGED registryVars

\* get_customer_history: the SELECT of the customer's tickets.
GetCustomerHistoryTickets(i) ==
    /\ inv[i].pc = "cust_read"
    /\ \/ Fail(i, DatabaseErrorMsg, TRUE)
       \/ \E ts \in SelectTicketsOf(inv[i].arguments.customer_id) :
             Succeed(i, [customer |-> inv[i].cust, tickets |-> ts])
    /\ UNCHANGED <<customers, tickets, clock>>
    /\ UNCHANGED registryVars

\* event_stream: the end event.
End(i) ==
    /\ inv[i].pc = "content"
    /\ inv' = [inv EXCEPT ![i].pc = "ended",
                          ![i].events = Append(@, EndMsg(inv[i].name))]
    /\ UNCHANGED <<customers, tickets, clock>>
    /\ UNCHANGED registryVars

\* A second passes: CURRENT_TIMESTAMP advances.
Tick ==
    /\ clock < MaxClock
    /\ clock' = clock + 1
    /\ UNCHANGED <<customers, tickets, inv>>
    /\ UNCHANGED registryVars

Next ==
    \/ \E i \in Inv, body \in Bodies : Call(i, body)
    \/ \E i \in Inv : Start(i)
    \/ \E i \in Inv : GetCustomer(i)
    \/ \E i \in Inv : ListCustomers(i)
    \/ \E i \in Inv : UpdateCustomerCommit(i)
    \/ \E i \in Inv : UpdateCustomerReadBack(i)
    \/ \E i \in Inv : CreateTicketCommit(i)
    \/ \E i \in Inv : CreateTicketReadBack(i)
    \/ \E i \in Inv : GetCustomerHistoryCustomer(i)
    \/ \E i \in Inv : GetCustomerHistoryTickets(i)
    \/ \E i \in Inv : End(i)
    \/ Tick

Spec == Init /\ [][Next]_vars

\* The store after one earlier create_ticket(1, "login failure") at time 0.
InitWithTicket ==
    /\ \E st \in {"active", "disabled"} :
          customers = [id \in ExistingIds |->
                          CustomerRow(id, IF id = 2 THEN st ELSE "active")]
    /\ tickets = <<InsertedTicket(1, 1, "login failure", DefaultPriority, 0)>>
    /\ clock = 0
    /\ inv = [i \in Inv |-> IdleInv]
    /\ InitRegistry

SpecWithTicket == InitWithTicket /\ [][Next]_vars

\* tools_list: POST /tools/list, served once the module is loaded.
ToolsList ==
    /\ stored = Len(literal)
    /\ listing' = ToolsPayload(registry)
    /\ UNCHANGED <<customers, tickets, clock, inv, registry, literal, stored>>

NextDiscovery == Next \/ ToolsList

\* The program with its discovery endpoint in use.
SpecDiscovery == Init /\ [][NextDiscovery]_vars

\* The evaluation of the dict display TOOLS = {...} at import: the next item
\* is stored under its key.
StoreItem ==
    /\ stored < Len(literal)
    /\ registry' = DictSet(registry, literal[stored + 1])
    /\ stored' = stored + 1
    /\ UNCHANGED <<customers, tickets, clock, inv, listing, literal>>

\* Displays of up to MaxItems items over two names, each with the
\* definition of the source or with a second definition of the same name.
ItemChoices ==
    UNION {{[key |-> k, tool |-> ToolDef(k, d)] :
               d \in {Description(k), "A second definition."}} :
           k \in {"get_customer", "list_customers"}}

LiteralChoices == UNION {[1..n -> ItemChoices] : n \in 0..MaxItems}

InitBuild ==
    /\ customers = [id \in ExistingIds |-> CustomerRow(id, "active")]
    /\ tickets = <<>>
    /\ clock = 0
    /\ inv = [i \in Inv |-> IdleInv]
    /\ literal \in LiteralChoices
    /\ stored = 0
    /\ registry = <<>>
    /\ listing = None

NextBuild == StoreItem \/ ToolsList

\* The construction of a registry from a display, and discovery on it.
BuildSpec == InitBuild /\ [][NextBuild]_vars

\* The steps of invocation i's response stream.  The server iterates the
\* generator of a StreamingResponse until it is exhausted.
Drive(i) ==
    \/ Start(i) \/ End(i)
    \/ GetCustomer(i) \/ ListCustomers(i)
    \/ UpdateCustomerCommit(i) \/ UpdateCustomerReadBack(i)
    \/ CreateTicketCommit(i) \/ CreateTicketReadBack(i)
    \/ GetCustomerHistoryCustomer(i) \/ GetCustomerHistoryTickets(i)

FairSpec == Spec /\ \A i \in Inv : WF_vars(Drive(i))

(***************************************************************************)
(* Vocabulary of the properties.                                           *)
(***************************************************************************)
\* The invocation has yielded its content event (the second line).
HasContent(i) == Len(inv[i].events) >= 2
Content(i) == inv[i].events[2]
Returned(i) == HasContent(i) /\ Content(i).event = "result"
Raised(i) == HasContent(i) /\ Content(i).event = "error"

\* Invocation i is a call of tool whose arguments supply exactly keys.
IsCall(i, tool, keys) ==
    /\ inv[i].pc \notin {"idle", "rejected"}
    /\ inv[i].name = tool
    /\ DOMAIN inv[i].arguments = keys

\* The step changes invocation i (a step changes one invocation at most).
StepOf(i) == inv'[i] # inv[i]

AllowListed(data) == DOMAIN data \cap {"name", "email", "phone", "status"}

(***************************************************************************)
(* C1.  Every invocation of a resolved tool yields exactly start, then one *)
(* result or error, then end, each carrying the invocation's tool name,    *)
(* and nothing after end, whatever the operation does and however the      *)
(* invocations interleave.                                                 *)
(***************************************************************************)
C1_Prefix(i) ==
    LET ev == inv[i].events
        n == Len(ev)
    IN /\ n <= 3
       /\ \A k \in 1..n : ev[k].tool = inv[i].body.name.v
       /\ n >= 1 => ev[1].event = "start"
       /\ n >= 2 => ev[2].event \in {"result", "error"}
       /\ n >= 3 => ev[3].event = "end"

C1_Position(i) ==
    LET n == Len(inv[i].events)
    IN CASE inv[i].pc \in {"idle", "rejected", "accepted"} -> n = 0
         [] inv[i].pc \in {"started", "committed", "cust_read"} -> n = 1
         [] inv[i].pc = "content" -> n = 2
         [] inv[i].pc = "ended" -> n = 3

C1_StateInv ==
    \A i \in Inv :
        /\ inv[i].events # <<>> => C1_Prefix(i)
        /\ C1_Position(i)
        /\ inv[i].pc \notin {"idle", "rejected"} =>
              inv[i].body.name.v \in ToolNames

\* Events are only appended, one at a time, and never after end.
C1_StepInv ==
    \A i \in Inv :
        /\ \/ inv'[i].events = inv[i].events
           \/ /\ Len(inv'[i].events) = Len(inv[i].events) + 1
              /\ SubSeq(inv'[i].events, 1, Len(inv[i].events)) = inv[i].events
        /\ inv[i].pc = "ended" => inv'[i] = inv[i]

\* Under FairSpec the stream of every accepted request is driven to its end.
C1_Completes == \A i \in Inv : (inv[i].pc = "accepted") ~> (inv[i].pc = "ended")

C1_EventSequence == []C1_StateInv /\ [][C1_StepInv]_vars /\ C1_Completes

\* Two interleaved invocations have ended, one with a result and one with
\* an error raised by a failing database call.
C1_Witness ==
    /\ inv[1].pc = "ended" /\ inv[2].pc = "ended"
    /\ Returned(1)
    /\ Raised(2) /\ inv[2].faulted

(***************************************************************************)
(* C2.  A request whose name is missing, or present but no key of the      *)
(* registry, is rejected before any event is produced, with status 400     *)
(* when the name is missing and 404 when it is unknown; the invocation     *)
(* never starts and the store is unchanged.                                *)
(***************************************************************************)
NameMissing(body) == "name" \notin DOMAIN body
NameUnknown(body) ==
    /\ "name" \in DOMAIN body
    /\ body.name.json = "array" \/ body.name.v \notin ToolNames
NameEmpty(body) == "name" \in DOMAIN body /\ body.name.v = ""
NameUnhashable(body) == "name" \in DOMAIN body /\ body.name.json = "array"

\* A rejected request has produced nothing and stays rejected.
C2_Rejected(i) ==
    /\ inv[i].pc = "rejected"
    /\ inv[i].events = <<>>

C2_RejectStep ==
    \A i \in Inv :
        /\ inv[i].pc = "rejected" => inv'[i] = inv[i]
        /\ inv[i].pc = "idle" /\ inv'[i].pc = "rejected" =>
              /\ customers' = customers
              /\ tickets' = tickets

\* The claim as stated: 400 for a missing name, 404 for every present name
\* that is no key of the registry.
C2_AsStated ==
    \A i \in Inv : inv[i].pc # "idle" =>
        /\ NameMissing(inv[i].body) => C2_Rejected(i) /\ inv[i].http = 400
        /\ NameUnknown(inv[i].body) => C2_Rejected(i) /\ inv[i].http = 404

C2_StateInv ==
    \A i \in Inv : inv[i].pc # "idle" =>
        LET b == inv[i].body IN
        /\ NameMissing(b) \/ NameUnknown(b) => C2_Rejected(i)
        /\ NameMissing(b) \/ NameEmpty(b) => inv[i].http = 400
        /\ NameUnknown(b) /\ ~NameEmpty(b) /\ ~NameUnhashable(b) => inv[i].http = 404
        /\ NameUnhashable(b) => inv[i].http = 500

\* As amended: an empty name is answered like a missing one (400), a name
\* that cannot be looked up (a JSON array) with 500, every other unknown
\* name with 404; all of them before any event, leaving the store alone.
C2_RejectedBeforeAnyEvent == []C2_StateInv /\ [][C2_RejectStep]_vars

\* An unknown name was rejected with 404 while another invocation had
\* already changed the store.
C2_Witness ==
    /\ inv[2].pc = "rejected" /\ inv[2].http = 404
    /\ inv[2].body.name.v = "delete_customer"
    /\ inv[1].pc = "ended" /\ tickets # <<>>

(***************************************************************************)
(* C3.  Every customer has status active or disabled in every reachable    *)
(* state, also after update_customer calls with an arbitrary status.       *)
(***************************************************************************)
C3_StatusInvariant ==
    \A id \in DOMAIN customers : customers[id].status \in {"active", "disabled"}

(***************************************************************************)
(* C4.  update_customer with data that is empty or holds only keys outside *)
(* the allow-list yields the error event "No valid fields to update.",     *)
(* for existing and non-existing customer ids alike.                       *)
(***************************************************************************)
C4_NoValidFields ==
    \A i \in Inv :
        /\ IsCall(i, "update_customer", {"customer_id", "data"})
        /\ AllowListed(inv[i].arguments.data) = {}
        /\ inv[i].pc \notin {"accepted", "started"}
        => /\ Raised(i)
           /\ Content(i).error = "No valid fields to update."

\* One call with empty data on an existing id and one with only an
\* unrecognised key on an absent id have both yielded the error.
C4_Witness ==
    \E i, j \in Inv :
        /\ IsCall(i, "update_customer", {"customer_id", "data"})
        /\ inv[i].arguments = [customer_id |-> 1, data |-> EmptyDict]
        /\ Raised(i)
        /\ IsCall(j, "update_customer", {"customer_id", "data"})
        /\ inv[j].arguments = [customer_id |-> 3, data |-> [id |-> "9"]]
        /\ Raised(j)

(***************************************************************************)
(* C5.  update_customer on an existing customer with at least one          *)
(* allow-listed key yields a result event whose record is the post-update  *)
(* record of that update: every allow-listed field supplied has exactly    *)
(* the supplied value, also when other update_customer invocations on the  *)
(* same customer run concurrently.                                         *)
(***************************************************************************)
C5_Applies(i) ==
    /\ IsCall(i, "update_customer", {"customer_id", "data"})
    /\ inv[i].arguments.customer_id \in DOMAIN customers
    /\ AllowListed(inv[i].arguments.data) # {}
    /\ ~inv[i].faulted
    /\ HasContent(i)

C5_ReturnsOwnUpdate ==
    \A i \in Inv : C5_Applies(i) =>
        /\ Returned(i)
        /\ \A k \in AllowListed(inv[i].arguments.data) :
              Content(i).output[k] = inv[i].arguments.data[k]

(***************************************************************************)
(* C6.  create_ticket with a priority in {low, medium, high}, or with none *)
(* (medium by default), yields a result event whose record has status      *)
(* "open", the requested priority and an id no earlier ticket has; ids     *)
(* returned to different invocations differ; the customer need not exist.  *)
(***************************************************************************)
C6_Applies(i) ==
    /\ \/ IsCall(i, "create_ticket", {"customer_id", "issue"})
       \/ /\ IsCall(i, "create_ticket", {"customer_id", "issue", "priority"})
          /\ inv[i].arguments.priority \in {"low", "medium", "high"}
    /\ ~inv[i].faulted
    /\ HasContent(i)

C6_Requested(i) ==
    IF "priority" \in DOMAIN inv[i].arguments
    THEN inv[i].arguments.priority ELSE "medium"

C6_StateInv ==
    \A i \in Inv : C6_Applies(i) =>
        /\ Returned(i)
        /\ Content(i).output.status = "open"
        /\ Content(i).output.priority = C6_Requested(i)
        /\ Content(i).output.customer_id = inv[i].arguments.customer_id
        /\ Content(i).output.id = inv[i].ticket_id
        /\ \A j \in Inv \ {i} :
              C6_Applies(j) /\ Returned(j) =>
                 Content(j).output.id # Content(i).output.id

\* The id an invocation gets at its INSERT belongs to no ticket that was in
\* the table before.
C6_FreshStep ==
    \A i \in Inv :
        inv[i].name = "create_ticket" /\ inv[i].pc = "started"
        /\ inv'[i].pc = "committed"
        => /\ \A n \in 1..Len(tickets) : tickets[n].id # inv'[i].ticket_id
           /\ \E n \in 1..Len(tickets') : tickets'[n].id = inv'[i].ticket_id

C6_CreatesFreshOpenTicket == []C6_StateInv /\ [][C6_FreshStep]_vars

\* Two invocations for a customer that does not exist, running
\* concurrently (both inserted before either returned), one with the
\* default priority, have both returned.
C6_Witness ==
    /\ C6_Applies(1) /\ C6_Applies(2)
    /\ Returned(1) /\ Returned(2)
    /\ inv[1].arguments.customer_id = 3 /\ inv[2].arguments.customer_id = 3
    /\ C6_Requested(1) = "medium" /\ "priority" \notin DOMAIN inv[1].arguments
    /\ C6_Requested(2) = "high"
    /\ Content(1).output.id = 2 /\ Content(2).output.id = 1

(***************************************************************************)
(* C7.  create_ticket with a priority outside {low, medium, high} yields   *)
(* an error event and inserts no ticket.                                   *)
(***************************************************************************)
C7_Applies(i) ==
    /\ IsCall(i, "create_ticket", {"customer_id", "issue", "priority"})
    /\ inv[i].arguments.priority \notin {"low", "medium", "high"}

C7_StateInv ==
    \A i \in Inv :
        C7_Applies(i) /\ inv[i].pc \notin {"accepted", "started"} => Raised(i)

C7_Step ==
    \A i \in Inv : C7_Applies(i) /\ StepOf(i) => tickets' = tickets

C7_BadPriorityInsertsNothing == []C7_StateInv /\ [][C7_Step]_vars

\* A call with priority "urgent" has ended with an error while the table
\* already held a ticket.
C7_Witness ==
    \E i \in Inv :
        /\ C7_Applies(i) /\ inv[i].arguments.priority = "urgent"
        /\ Raised(i) /\ inv[i].pc = "ended"
        /\ tickets # <<>>

(***************************************************************************)
(* C8.  list_customers returns, for every status and every integer limit,  *)
(* zero and negative limits included, at most limit records, each with the *)
(* requested status.                                                       *)
(***************************************************************************)
C8_Applies(i) ==
    /\ inv[i].pc \notin {"idle", "rejected"}
    /\ inv[i].name = "list_customers"
    /\ DOMAIN inv[i].arguments \subseteq {"status", "limit"}
    /\ Returned(i)

\* The requested status and limit (active and 20 when not supplied).
C8_Status(i) ==
    IF "status" \in DOMAIN inv[i].arguments THEN inv[i].arguments.status
    ELSE "active"
C8_Limit(i) ==
    IF "limit" \in DOMAIN inv[i].arguments THEN inv[i].arguments.limit
    ELSE 20

C8_AllHaveStatus(i) ==
    \A n \in 1..Len(Content(i).output) :
        Content(i).output[n].status = C8_Status(i)

\* The claim as stated.
C8_AsStated ==
    \A i \in Inv : C8_Applies(i) =>
        /\ Len(Content(i).output) <= C8_Limit(i)
        /\ C8_AllHaveStatus(i)

\* As amended: the cap holds for limits of zero and more (a negative limit
\* caps nothing); the filter holds for every limit.
C8_LimitAndFilter ==
    \A i \in Inv : C8_Applies(i) =>
        /\ C8_Limit(i) >= 0 => Len(Content(i).output) <= C8_Limit(i)
        /\ C8_AllHaveStatus(i)

\* A list with limit 1 returned one record although two customers have
\* the requested status.
C8_Witness ==
    \E i \in Inv :
        /\ C8_Applies(i)
        /\ C8_Limit(i) = 1
        /\ Len(Content(i).output) = 1
        /\ \A id \in DOMAIN customers : customers[id].status = C8_Status(i)

(***************************************************************************)
(* C9.  get_customer and get_customer_history with a customer_id that is   *)
(* not in the store yield a result event, never an error event: {} and     *)
(* {customer: null, tickets: []}, even when tickets with that customer_id  *)
(* exist.                                                                  *)
(***************************************************************************)
C9_Applies(i, tool) ==
    /\ IsCall(i, tool, {"customer_id"})
    /\ inv[i].arguments.customer_id \notin DOMAIN customers
    /\ ~inv[i].faulted
    /\ HasContent(i)

C9_AbsentIsEmpty ==
    \A i \in Inv :
        /\ C9_Applies(i, "get_customer") =>
              Returned(i) /\ Content(i).output = EmptyDict
        /\ C9_Applies(i, "get_customer_history") =>
              /\ Returned(i)
              /\ Content(i).output = [customer |-> None, tickets |-> <<>>]
        /\ inv[i].pc = "cust_read" =>
              inv[i].arguments.customer_id \in DOMAIN customers

\* A history of customer 3 was returned after a ticket for customer 3 had
\* been created and returned.
C9_Witness ==
    /\ IsCall(1, "create_ticket", {"customer_id", "issue"})
    /\ inv[1].arguments.customer_id = 3
    /\ inv[1].pc = "ended" /\ Returned(1)
    /\ C9_Applies(2, "get_customer_history")
    /\ inv[2].arguments.customer_id = 3
    /\ Returned(2)

(***************************************************************************)
(* C10.  update_customer with a customer_id that is not in the store and   *)
(* at least one allow-listed key is a no-op: it yields a result event with *)
(* the empty record, and no customer and no ticket is created or changed.  *)
(***************************************************************************)
C10_Applies(i) ==
    /\ IsCall(i, "update_customer", {"customer_id", "data"})
    /\ inv[i].arguments.customer_id \notin DOMAIN customers
    /\ AllowListed(inv[i].arguments.data) # {}

C10_StateInv ==
    \A i \in Inv :
        C10_Applies(i) /\ ~inv[i].faulted /\ HasContent(i) =>
            Returned(i) /\ Content(i).output = EmptyDict

C10_Step ==
    \A i \in Inv :
        C10_Applies(i) /\ StepOf(i) =>
            customers' = customers /\ tickets' = tickets

C10_AbsentUpdateIsNoOp == []C10_StateInv /\ [][C10_Step]_vars

\* An update of the absent customer 3 has passed its commit and returned.
C10_Witness ==
    \E i \in Inv :
        /\ C10_Applies(i)
        /\ inv[i].arguments = [customer_id |-> 3, data |-> [name |-> "n1"]]
        /\ Returned(i) /\ inv[i].pc = "ended"

(***************************************************************************)
(* C11.  From a store whose tickets all have status "open" and a priority  *)
(* in {low, medium, high}, every reachable state has only such tickets.    *)
(***************************************************************************)
C11_TicketInvariant ==
    \A n \in 1..Len(tickets) :
        /\ tickets[n].status = "open"
        /\ tickets[n].priority \in {"low", "medium", "high"}

\* Two tickets are in the table, one created with the default priority
\* and one with priority high, and both invocations have ended.
C11_Witness ==
    /\ Len(tickets) = 2
    /\ {tickets[1].priority, tickets[2].priority} = {"medium", "high"}
    /\ \A i \in Inv : inv[i].pc = "ended" /\ inv[i].name = "create_ticket"

(***************************************************************************)
(* C12.  No operation updates or deletes a ticket: every ticket that       *)
(* existed stays in the table with all its fields unchanged; the table     *)
(* only grows, one row at a time, and only by create_ticket.               *)
(***************************************************************************)
C12_Step ==
    /\ Len(tickets') >= Len(tickets)
    /\ \A n \in 1..Len(tickets) : tickets'[n] = tickets[n]
    /\ tickets' # tickets =>
          /\ Len(tickets') = Len(tickets) + 1
          /\ \E i \in Inv :
                /\ inv[i].name = "create_ticket"
                /\ inv[i].pc = "started"
                /\ inv'[i].pc = "committed"

C12_TicketsOnlyGrow == [][C12_Step]_vars

\* A ticket of customer 1 is in the table after another ticket was created
\* for the same customer and both invocations have ended.
C12_Witness ==
    /\ Len(tickets) = 2
    /\ tickets[1].customer_id = 1 /\ tickets[2].customer_id = 1
    /\ tickets[1].id = 1 /\ tickets[2].id = 2
    /\ \A i \in Inv : inv[i].pc = "ended"

(***************************************************************************)
(* C13.  get_customer_history on an existing customer returns that         *)
(* customer's record and exactly the tickets of that customer, newest      *)
(* first: a ticket created later never comes after a ticket created        *)
(* earlier, tickets with equal created_at included.  (Ids are handed out   *)
(* in the order of creation.)                                              *)
(***************************************************************************)
C13_Applies(i) ==
    /\ IsCall(i, "get_customer_history", {"customer_id"})
    /\ inv[i].arguments.customer_id \in DOMAIN customers
    /\ Returned(i)

C13_NewestFirst ==
    \A i \in Inv : C13_Applies(i) =>
        LET out == Content(i).output
            id == inv[i].arguments.customer_id
        IN /\ out.customer.id = id
           /\ \A n \in 1..Len(out.tickets) :
                 /\ out.tickets[n].customer_id = id
                 /\ \E k \in 1..Len(tickets) : tickets[k] = out.tickets[n]
           /\ \A a, b \in 1..Len(out.tickets) :
                 a < b => out.tickets[a].id > out.tickets[b].id

(***************************************************************************)
(* C16.  A successful update_customer on an existing customer changes, in  *)
(* that customer's record, only the allow-listed fields present in data    *)
(* and updated_at, which is refreshed; other keys of data are ignored; id, *)
(* created_at and the allow-listed fields absent from data are unchanged,  *)
(* and so are every other customer and every ticket.                       *)
(***************************************************************************)
\* The step is the commit of an update of existing customer id by i.
C16_Commits(i, id) ==
    /\ inv[i].name = "update_customer"
    /\ inv[i].pc = "started"
    /\ inv'[i].pc = "committed"
    /\ inv[i].arguments.customer_id = id

C16_Step ==
    \A i \in Inv : \A id \in DOMAIN customers : C16_Commits(i, id) =>
        LET data == inv[i].arguments.data IN
        /\ DOMAIN customers' = DOMAIN customers
        /\ \A k \in AllowListed(data) : customers'[id][k] = data[k]
        /\ customers'[id].updated_at = clock
        /\ \A k \in {"name", "email", "phone", "status"} \ DOMAIN data :
              customers'[id][k] = customers[id][k]
        /\ customers'[id].id = customers[id].id
        /\ customers'[id].created_at = customers[id].created_at
        /\ DOMAIN customers'[id] = DOMAIN customers[id]
        /\ \A other \in DOMAIN customers \ {id} :
              customers'[other] = customers[other]
        /\ tickets' = tickets

C16_UpdateFrame == [][C16_Step]_vars

\* The update {email: e1, id: 9} of customer 1 has returned at time 1: the
\* email and updated_at are written, the id and the name are not.
C16_Witness ==
    \E i \in Inv :
        /\ IsCall(i, "update_customer", {"customer_id", "data"})
        /\ inv[i].arguments = [customer_id |-> 1, data |-> [email |-> "e1", id |-> "9"]]
        /\ Returned(i)
        /\ customers[1].email = "e1" /\ customers[1].updated_at = 1
        /\ customers[1].id = 1 /\ customers[1].name = "n0"

(***************************************************************************)
(* C17.  The mutation of update_customer and of create_ticket is committed *)
(* before the invocation's result event is emitted: whenever such a result *)
(* event has been emitted the store already holds the mutation, so nothing *)
(* that happens to the stream afterwards undoes it.                        *)
(***************************************************************************)
C17_Mutating(i) == inv[i].name \in {"update_customer", "create_ticket"}

\* The step yields the result event of invocation i.
C17_YieldsResult(i) ==
    /\ Len(inv[i].events) = 1
    /\ Len(inv'[i].events) = 2
    /\ inv'[i].events[2].event = "result"

\* The result is yielded by an invocation that had committed in an earlier
\* step; the yielding step writes nothing, and the record it carries is
\* the one the store held before the step.
C17_Step ==
    \A i \in Inv : C17_Mutating(i) /\ C17_YieldsResult(i) =>
        LET out == inv'[i].events[2].output
            id == inv[i].arguments.customer_id
        IN /\ inv[i].pc = "committed"
           /\ customers' = customers
           /\ tickets' = tickets
           /\ inv[i].name = "create_ticket" =>
                 \E n \in 1..Len(tickets) :
                    tickets[n] = out /\ tickets[n].id = inv[i].ticket_id
           /\ inv[i].name = "update_customer" =>
                 out = IF id \in DOMAIN customers THEN customers[id] ELSE EmptyDict

\* A created ticket that was returned is in the table, in every later state.
C17_StateInv ==
    \A i \in Inv :
        inv[i].name = "create_ticket" /\ Returned(i) =>
            \E n \in 1..Len(tickets) : tickets[n] = Content(i).output

C17_CommittedBeforeResult == []C17_StateInv /\ [][C17_Step]_vars

\* A create_ticket and an update_customer of customer 1 have both yielded
\* their result and ended; the ticket and the new name are in the store.
C17_Witness ==
    \E i, j \in Inv :
        /\ inv[i].name = "create_ticket" /\ Returned(i) /\ inv[i].pc = "ended"
        /\ inv[j].name = "update_customer" /\ Returned(j) /\ inv[j].pc = "ended"
        /\ inv[j].arguments = [customer_id |-> 1, data |-> [name |-> "n1"]]
        /\ customers[1].name = "n1"
        /\ Len(tickets) = 1

(***************************************************************************)
(* C18.  get_customer, list_customers and get_customer_history are pure    *)
(* reads: whatever their arguments and their outcome, no step of theirs    *)
(* changes the customers or the tickets; only steps of update_customer and *)
(* create_ticket invocations change the store.                             *)
(***************************************************************************)
C18_Reads == {"get_customer", "list_customers", "get_customer_history"}

C18_Step ==
    /\ \A i \in Inv :
          StepOf(i) /\ inv'[i].name \in C18_Reads =>
             customers' = customers /\ tickets' = tickets
    /\ customers' # customers \/ tickets' # tickets =>
          \E i \in Inv :
             StepOf(i) /\ inv[i].name \in {"update_customer", "create_ticket"}

C18_PureReads == [][C18_Step]_vars

\* At time 1, a get_customer_history of customer 1 has returned and a
\* list_customers has ended with the error of a failed database call.
C18_Witness ==
    \E i, j \in Inv :
        /\ inv[i].name = "get_customer_history" /\ Returned(i)
        /\ inv[i].arguments.customer_id = 1 /\ inv[i].pc = "ended"
        /\ inv[j].name = "list_customers" /\ Raised(j) /\ inv[j].faulted
        /\ inv[j].pc = "ended"
        /\ clock = 1

(***************************************************************************)
(* C19.  An invocation of update_customer or create_ticket whose content   *)
(* event is error has committed no mutation, whatever raised the error     *)
(* (validation, bad arguments, a fault at any step of the operation, the   *)
(* read-back after the commit included): its own steps leave the customers *)
(* and the tickets as they were.                                           *)
(***************************************************************************)
\* The step yields the error event of invocation i.
C19_YieldsError(i) ==
    /\ Len(inv[i].events) = 1
    /\ Len(inv'[i].events) = 2
    /\ inv'[i].events[2].event = "error"

\* Invocation i has committed a write: its INSERT, or its UPDATE of a row
\* that exists.
C19_HasCommitted(i) ==
    /\ inv[i].pc = "committed"
    /\ \/ inv[i].name = "create_ticket"
       \/ inv[i].arguments.customer_id \in DOMAIN customers

C19_Step ==
    \A i \in Inv : C17_Mutating(i) /\ C19_YieldsError(i) =>
        /\ ~C19_HasCommitted(i)
        /\ customers' = customers
        /\ tickets' = tickets

C19_ErrorMeansNoMutation == [][C19_Step]_vars

(***************************************************************************)
(* C14.  tools/list returns, in every reachable state, one entry for each  *)
(* registered tool with its name, description, input schema and output     *)
(* schema, in registration order (get_customer, list_customers,            *)
(* update_customer, create_ticket, get_customer_history); no invocation    *)
(* changes the registry, so every discovery returns the same sequence.     *)
(***************************************************************************)
C14_Order ==
    <<"get_customer", "list_customers", "update_customer", "create_ticket",
      "get_customer_history">>

C14_Entry(item) ==
    [name |-> item.tool.name, description |-> item.tool.description,
     input_schema |-> item.tool.input_schema,
     output_schema |-> item.tool.output_schema]

C14_Discovery ==
    /\ registry = literal
    /\ Len(registry) = 5
    /\ \A n \in 1..5 :
          registry[n].key = C14_Order[n] /\ registry[n].tool.name = C14_Order[n]
    /\ listing # None =>
          /\ Len(listing) = 5
          /\ \A n \in 1..5 : listing[n] = C14_Entry(registry[n])

\* Discovery has answered, and the two invocations have ended: an update
\* that returned and a create_ticket that raised.
C14_Witness ==
    /\ listing # None
    /\ inv[1].name = "update_customer" /\ inv[1].pc = "ended" /\ Returned(1)
    /\ inv[2].name = "create_ticket" /\ inv[2].pc = "ended" /\ Raised(2)
    /\ customers[1].name = "n1"

====
